---- MODULE Spec2Model ----
(***************************************************************************)
(* Macro calculator (streamlit_app.py).                                    *)
(*                                                                         *)
(* The page is a Streamlit script: every interaction with a widget reruns  *)
(* the whole script with the widgets' current values, and the button       *)
(* "Calculate Macros" is True only in the rerun its click causes.  The     *)
(* state is therefore the widgets' values, today's weekday, and what the   *)
(* last rerun displayed.  Dates are day offsets from today.                *)
(*                                                                         *)
(* Arithmetic.  The calorie pipeline (BMR, TDEE, calorie target, macros)   *)
(* is Python float arithmetic; it is modelled in exact rationals, reduced  *)
(* to lowest terms, with Python's round (ties to even).  The weight        *)
(* projection is modelled in IEEE-754 double precision, bit for bit: its   *)
(* values are fixed-point numbers of four limbs with unit 2^-60, and each  *)
(* operation rounds to 53 significant bits, ties to even.                  *)
(***************************************************************************)
EXTENDS Integers, Sequences, FiniteSets, TLC

VARIABLES age, gender, current_weight, exercise_hours, target_weight, goal,
          target_date, weekday, result

vars == <<age, gender, current_weight, exercise_hours, target_weight, goal,
          target_date, weekday, result>>

inputs == <<age, gender, current_weight, exercise_hours, target_weight, goal,
            target_date, weekday>>

----------------------------------------------------------------------------
(* Widget limits and defaults of the form.                                 *)

MinAge == 15
MaxAge == 100
DefaultAge == 30
MinWeight == 40
MaxWeight == 200
DefaultWeight == 70
DefaultTargetWeight == 65
MaxExercise == 30
DefaultExercise == 3
MinTargetOffset == 7
DefaultTargetOffset == 35

Genders == {"Male", "Female"}
Goals == <<"Lose Weight", "Maintain Weight", "Gain Weight">>
GoalSet == {Goals[i] : i \in 1..Len(Goals)}

(* target_date is bound by the script only in a rerun whose goal is not    *)
(* "Maintain Weight": <<d>> when bound to the date d days from today, <<>> *)
(* when the name is not bound.                                             *)
Undefined == <<>>
DateAt(d) == <<d>>
OffsetOf(td) == td[1]

(* Constants of the calculation.                                           *)
KcalPerKg == 7700
CalorieFloor == 1200
ProteinKcalPerGram == 4
FatKcalPerGram == 9
CarbKcalPerGram == 4
DaysPerWeek == 7

(* Bounds of the model.  The date picker has no upper limit of its own;    *)
(* the model lets the user pick MinTargetOffset .. MinTargetOffset +       *)
(* DateSpan and the default.  SpecDirect applies the calculation to target *)
(* dates the form refuses too: -MaxBack .. MaxDirectDays days from today.  *)
(* HeavyWeight is a weight between the defaults and the maximum.           *)
DateSpan == 3
MaxBack == 1
MaxDirectDays == 7
HeavyWeight == 180

----------------------------------------------------------------------------
(* Exact rationals [n, d] in lowest terms, d > 0.                          *)

RECURSIVE GCD(_, _)
GCD(a, b) == IF b = 0 THEN a ELSE GCD(b, a % b)

Abs(x) == IF x < 0 THEN -x ELSE x

Rat(n, d) ==
    LET s == IF d < 0 THEN -1 ELSE 1
        g == GCD(Abs(n), Abs(d))
    IN  [n |-> (s * n) \div g, d |-> (s * d) \div g]

RInt(k) == [n |-> k, d |-> 1]
(* Sums and comparisons over the least common denominator.                *)
RAdd(a, b) ==
    LET g == GCD(a.d, b.d)
    IN  Rat(a.n * (b.d \div g) + b.n * (a.d \div g), (a.d \div g) * b.d)
RSub(a, b) == RAdd(a, [n |-> 0 - b.n, d |-> b.d])
RMul(a, b) ==
    LET g1 == GCD(Abs(a.n), b.d)
        g2 == GCD(Abs(b.n), a.d)
    IN  Rat((a.n \div g1) * (b.n \div g2), (a.d \div g2) * (b.d \div g1))
RDivInt(a, k) == RMul(a, Rat(1, k))
RLess(a, b) ==
    LET g == GCD(a.d, b.d)
    IN  a.n * (b.d \div g) < b.n * (a.d \div g)
RLeq(a, b) == ~RLess(b, a)
RMaxOf(a, b) == IF RLess(a, b) THEN b ELSE a
RAbs(a) == [n |-> Abs(a.n), d |-> a.d]

(* Python's round(x) of a float: the nearest integer, ties to even.        *)
PyRound(a) ==
    LET q == a.n \div a.d
        r == a.n % a.d
    IN  IF 2 * r < a.d THEN q
        ELSE IF 2 * r > a.d THEN q + 1
        ELSE IF q % 2 = 0 THEN q ELSE q + 1

----------------------------------------------------------------------------
(* The calorie pipeline.                                                   *)

(* calculate_bmr with the age term added instead of subtracted.            *)
calculate_bmr_AgeAdded(weight, a, g) ==
    IF g = "Male"
    THEN RAdd(RAdd(RAdd(RInt(10 * weight), RMul(Rat(625, 100), RInt(170))),
                   RInt(5 * a)), RInt(5))
    ELSE RSub(RAdd(RAdd(RInt(10 * weight), RMul(Rat(625, 100), RInt(160))),
                   RInt(5 * a)), RInt(161))

calculate_bmr(weight, a, g) ==
    IF g = "Male"
    THEN RAdd(RSub(RAdd(RInt(10 * weight), RMul(Rat(625, 100), RInt(170))),
                   RInt(5 * a)), RInt(5))
    ELSE RSub(RSub(RAdd(RInt(10 * weight), RMul(Rat(625, 100), RInt(160))),
                   RInt(5 * a)), RInt(161))

(* calculate_tdee without the division of the weekly hours by 7.           *)
calculate_tdee_HoursPerDay(bmr, activity_hours) ==
    LET activity_factor ==
            RAdd(Rat(12, 10), RMul(Rat(75, 1000), RInt(activity_hours)))
    IN  RMul(bmr, activity_factor)

calculate_tdee(bmr, activity_hours) ==
    LET activity_factor ==
            RAdd(Rat(12, 10),
                 RDivInt(RMul(Rat(75, 1000), RInt(activity_hours)), DaysPerWeek))
    IN  RMul(bmr, activity_factor)

protein_pct(g) ==
    IF g = "Lose Weight" THEN Rat(40, 100)
    ELSE IF g = "Maintain Weight" THEN Rat(30, 100)
    ELSE Rat(30, 100)

fat_pct(g) ==
    IF g = "Lose Weight" THEN Rat(35, 100)
    ELSE IF g = "Maintain Weight" THEN Rat(30, 100)
    ELSE Rat(25, 100)

carb_pct(g) ==
    IF g = "Lose Weight" THEN Rat(25, 100)
    ELSE IF g = "Maintain Weight" THEN Rat(40, 100)
    ELSE Rat(45, 100)

calculate_macros(calories, g) ==
    LET protein_cals == RMul(calories, protein_pct(g))
        fat_cals == RMul(calories, fat_pct(g))
        carb_cals == RMul(calories, carb_pct(g))
        protein_g == RDivInt(protein_cals, ProteinKcalPerGram)
        fat_g == RDivInt(fat_cals, FatKcalPerGram)
        carb_g == RDivInt(carb_cals, CarbKcalPerGram)
    IN  [protein |-> PyRound(protein_g),
         fat |-> PyRound(fat_g),
         carbs |-> PyRound(carb_g)]

----------------------------------------------------------------------------
(* IEEE-754 doubles of the weight projection.  A value is <<i, f2, f1, f0>> *)
(* = i + f2/Limb + f1/Limb^2 + f0/Limb^3, every limb in 0 .. Limb-1: a     *)
(* fixed-point number with unit 2^-60.  Every double the projection meets  *)
(* is below 256 and, when not zero, at least 2^-7 (MaxDirectDays and the   *)
(* form's dates stay below 128 days), so its 53 significant bits lie above *)
(* 2^-60 and the representation is exact.                                  *)

Limb == 2^20

RECURSIVE BitLen(_)
BitLen(k) == IF k = 0 THEN 0 ELSE 1 + BitLen(k \div 2)

FxInt(k) == <<k, 0, 0, 0>>

(* Position of the leading bit, counted from the unit 2^-60; -1 for zero.  *)
TopBit(v) ==
    IF v[1] > 0 THEN 60 + BitLen(v[1]) - 1
    ELSE IF v[2] > 0 THEN 40 + BitLen(v[2]) - 1
    ELSE IF v[3] > 0 THEN 20 + BitLen(v[3]) - 1
    ELSE BitLen(v[4]) - 1

(* floor(a * 2^60 / d) by long division, and whether a remainder is left.  *)
FxQuot(a, d) ==
    LET q3 == a \div d
        r3 == a % d
        q2 == (r3 * Limb) \div d
        r2 == (r3 * Limb) % d
        q1 == (r2 * Limb) \div d
        r1 == (r2 * Limb) % d
        q0 == (r1 * Limb) \div d
        r0 == (r1 * Limb) % d
    IN  [v |-> <<q3, q2, q1, q0>>, sticky |-> r0 # 0]

FxAdd(u, v) ==
    LET s0 == u[4] + v[4]
        s1 == u[3] + v[3] + s0 \div Limb
        s2 == u[2] + v[2] + s1 \div Limb
        s3 == u[1] + v[1] + s2 \div Limb
    IN  <<s3, s2 % Limb, s1 % Limb, s0 % Limb>>

(* u - v for u >= v: \div and % round toward minus infinity, so a negative *)
(* limb borrows from the next.                                             *)
FxSub(u, v) ==
    LET s0 == u[4] - v[4]
        s1 == u[3] - v[3] + s0 \div Limb
        s2 == u[2] - v[2] + s1 \div Limb
        s3 == u[1] - v[1] + s2 \div Limb
    IN  <<s3, s2 % Limb, s1 % Limb, s0 % Limb>>

FxMulInt(v, k) ==
    LET s0 == v[4] * k
        s1 == v[3] * k + s0 \div Limb
        s2 == v[2] * k + s1 \div Limb
        s3 == v[1] * k + s2 \div Limb
    IN  <<s3, s2 % Limb, s1 % Limb, s0 % Limb>>

FxLess(u, v) ==
    \E k \in 1..4 : u[k] < v[k] /\ \A j \in 1..(k - 1) : u[j] = v[j]

(* Round to 53 significant bits, ties to even; sticky says that the exact  *)
(* value lies strictly above v.  The bits dropped lie in the lowest limb.  *)
RoundDouble(v, sticky) ==
    LET nb == TopBit(v) - 52
        m == 2^nb
        low == v[4] % m
        half == m \div 2
        odd == (v[4] \div m) % 2 = 1
        up == low > half \/ (low = half /\ (sticky \/ odd))
        down == <<v[1], v[2], v[3], v[4] - low>>
    IN  IF nb <= 0 THEN v
        ELSE IF up THEN FxAdd(down, <<0, 0, 0, m>>) ELSE down

(* Python's int / int: the quotient correctly rounded, as sign and         *)
(* magnitude.                                                              *)
TrueDiv(a, d) ==
    LET q == FxQuot(Abs(a), Abs(d))
    IN  [neg |-> (a < 0) # (d < 0), mag |-> RoundDouble(q.v, q.sticky)]

(* start_weight + (daily_change * i): the int i and the int start_weight   *)
(* convert exactly; the product and the sum are each rounded.              *)
ProjectedWeight(start_weight, daily_change, i) ==
    LET prod == RoundDouble(FxMulInt(daily_change.mag, i), FALSE)
    IN  IF daily_change.neg
        THEN RoundDouble(FxSub(FxInt(start_weight), prod), FALSE)
        ELSE RoundDouble(FxAdd(FxInt(start_weight), prod), FALSE)

----------------------------------------------------------------------------
(* The weight projection and its weekly digest.                            *)

(* Raised by the script; Streamlit shows the exception and the rerun ends. *)
ZeroDivisionError == "ZeroDivisionError"
NameError == "NameError"

(* pd.date_range(start = today, end = target_date, freq = 'D'): today and  *)
(* the target date included, empty when the target date is before today.  *)
(* A date range that leaves the target date out.                           *)
DateRange_EndExclusive(td) == [k \in 1..(IF td >= 0 THEN td ELSE 0) |-> k - 1]

DateRange(td) == [k \in 1..(IF td >= 0 THEN td + 1 ELSE 0) |-> k - 1]

(* create_weight_projection with the change spread over one day too many. *)
create_weight_projection_ExtraDay(start_weight, tw, td) ==
    LET dates == DateRange(td)
        total_days == td + 1
        daily_change == TrueDiv(tw - start_weight, total_days)
        weights == [k \in 1..Len(dates) |->
                       ProjectedWeight(start_weight, daily_change, k - 1)]
    IN  IF total_days = 0
        THEN [err |-> ZeroDivisionError, df |-> <<>>]
        ELSE [err |-> "none",
              df |-> [k \in 1..Len(dates) |->
                         [Date |-> dates[k], Weight |-> weights[k]]]]

create_weight_projection(start_weight, tw, td) ==
    LET dates == DateRange(td)
        total_days == td
        daily_change == TrueDiv(tw - start_weight, total_days)
        weights == [k \in 1..Len(dates) |->
                       ProjectedWeight(start_weight, daily_change, k - 1)]
    IN  IF total_days = 0
        THEN [err |-> ZeroDivisionError, df |-> <<>>]
        ELSE [err |-> "none",
              df |-> [k \in 1..Len(dates) |->
                         [Date |-> dates[k], Weight |-> weights[k]]]]

(* Python weekday of the date `day` days after today: 0 Monday .. 6 Sunday. *)
WeekdayOf(wd, day) == (wd + day) % DaysPerWeek

(* resample('W'): calendar weeks that end on Sunday, each labelled by its  *)
(* Sunday.                                                                 *)
WeekLabel(wd, day) == day + (DaysPerWeek - 1 - WeekdayOf(wd, day))

(* resample('W', on = 'Date').first(): the first row of every calendar     *)
(* week, indexed by the week's label.                                      *)
WeeklyFirst(df, wd) ==
    LET starts == {k \in 1..Len(df) :
                      k = 1 \/ WeekLabel(wd, df[k].Date) # WeekLabel(wd, df[k - 1].Date)}
        nth(j) == CHOOSE k \in starts : Cardinality({x \in starts : x < k}) = j - 1
    IN  [j \in 1..Cardinality(starts) |->
            [idx |-> WeekLabel(wd, df[nth(j)].Date), Weight |-> df[nth(j)].Weight]]

(* f"{w:.1f}": the weight in tenths of a kilogram, the exact binary value  *)
(* rounded to the nearest tenth, ties to even.                             *)
FormatTenths(w) ==
    LET x == FxMulInt(w, 10)
        frac == <<0, x[2], x[3], x[4]>>
        half == <<0, Limb \div 2, 0, 0>>
    IN  IF FxLess(frac, half) THEN x[1]
        ELSE IF FxLess(half, frac) THEN x[1] + 1
        ELSE IF x[1] % 2 = 0 THEN x[1] ELSE x[1] + 1

(* The lines "Week {week_num}: {Weight:.1f} kg".                           *)
WeeklyMilestones(df, wd) ==
    LET weekly_df == WeeklyFirst(df, wd)
    IN  [j \in 1..Len(weekly_df) |->
            [week_num |-> (weekly_df[j].idx \div DaysPerWeek) + 1,
             Weight |-> weekly_df[j].Weight,
             shown |-> FormatTenths(weekly_df[j].Weight)]]

----------------------------------------------------------------------------
(* The rerun caused by a click on "Calculate Macros".                      *)

(* The calorie adjustment without the floor of the Lose Weight branch.     *)
AdjustCalories_NoFloor(tdee, g, cw, tw, td) ==
    IF g = "Maintain Weight" THEN [err |-> "none", target_calories |-> tdee]
    ELSE IF td = Undefined THEN [err |-> NameError]
    ELSE IF OffsetOf(td) = 0 THEN [err |-> ZeroDivisionError]
    ELSE IF g = "Lose Weight"
    THEN [err |-> "none",
          target_calories |-> RSub(tdee, Rat((cw - tw) * KcalPerKg, OffsetOf(td)))]
    ELSE [err |-> "none",
          target_calories |-> RAdd(tdee, Rat((tw - cw) * KcalPerKg, OffsetOf(td)))]

(* The calorie adjustment with Maintain Weight treated as a gain toward    *)
(* the target weight by the target date.                                   *)
AdjustCalories_MaintainAsGain(tdee, g, cw, tw, td) ==
    IF td = Undefined THEN [err |-> NameError]
    ELSE IF OffsetOf(td) = 0 THEN [err |-> ZeroDivisionError]
    ELSE IF g = "Lose Weight"
    THEN [err |-> "none",
          target_calories |->
              RMaxOf(RSub(tdee, Rat((cw - tw) * KcalPerKg, OffsetOf(td))),
                     RInt(CalorieFloor))]
    ELSE [err |-> "none",
          target_calories |-> RAdd(tdee, Rat((tw - cw) * KcalPerKg, OffsetOf(td)))]

(* "Adjust calories based on goal".                                        *)
AdjustCalories(tdee, g, cw, tw, td) ==
    IF g = "Lose Weight"
    THEN IF td = Undefined THEN [err |-> NameError]
         ELSE IF OffsetOf(td) = 0 THEN [err |-> ZeroDivisionError]
         ELSE LET weight_diff == cw - tw
                  days_until_target == OffsetOf(td)
                  daily_deficit == Rat(weight_diff * KcalPerKg, days_until_target)
              IN  [err |-> "none",
                   target_calories |-> RMaxOf(RSub(tdee, daily_deficit), RInt(CalorieFloor))]
    ELSE IF g = "Gain Weight"
    THEN IF td = Undefined THEN [err |-> NameError]
         ELSE IF OffsetOf(td) = 0 THEN [err |-> ZeroDivisionError]
         ELSE LET weight_diff == tw - cw
                  days_until_target == OffsetOf(td)
                  daily_surplus == Rat(weight_diff * KcalPerKg, days_until_target)
              IN  [err |-> "none", target_calories |-> RAdd(tdee, daily_surplus)]
    ELSE [err |-> "none", target_calories |-> tdee]

NoResult == [status |-> "none"]
Failed(e) == [status |-> "error", err |-> e]

Results(a, gd, cw, eh, tw, g, td, wd) ==
    LET bmr == calculate_bmr(cw, a, gd)
        tdee == calculate_tdee(bmr, eh)
        adj == AdjustCalories(tdee, g, cw, tw, td)
        proj == IF g # "Maintain Weight"
                THEN create_weight_projection(cw, tw, OffsetOf(td))
                ELSE [err |-> "none", df |-> <<>>]
    IN  IF adj.err # "none" THEN Failed(adj.err)
        ELSE IF proj.err # "none" THEN Failed(proj.err)
        ELSE [status |-> "ok",
              bmr |-> bmr,
              tdee |-> tdee,
              target_calories |-> adj.target_calories,
              macros |-> calculate_macros(adj.target_calories, g),
              daily_calories_shown |-> PyRound(adj.target_calories),
              bmr_shown |-> PyRound(bmr),
              tdee_shown |-> PyRound(tdee),
              difference_shown |-> Abs(PyRound(RSub(adj.target_calories, tdee))),
              projection |-> proj.df,
              weekly |-> WeeklyMilestones(proj.df, wd)]

CalculateMacros ==
    /\ result' = Results(age, gender, current_weight, exercise_hours,
                         target_weight, goal, target_date, weekday)
    /\ UNCHANGED inputs

----------------------------------------------------------------------------
(* The reruns caused by a change of a widget: the button is False, so      *)
(* nothing is displayed below the form.                                    *)

AgeChoices == {MinAge, DefaultAge, MaxAge}
WeightChoices == {MinWeight, DefaultTargetWeight, DefaultWeight, HeavyWeight, MaxWeight}
ExerciseChoices == {DefaultExercise, MaxExercise}
(* A date picker whose earliest date is today.                             *)
TargetDateChoices_FromToday ==
    (0..(MinTargetOffset + DateSpan)) \cup {DefaultTargetOffset}

TargetDateChoices ==
    (MinTargetOffset..(MinTargetOffset + DateSpan)) \cup {DefaultTargetOffset}

SetAge ==
    \E a \in AgeChoices :
        /\ a # age
        /\ age' = a
        /\ result' = NoResult
        /\ UNCHANGED <<gender, current_weight, exercise_hours, target_weight,
                       goal, target_date, weekday>>

SetGender ==
    \E g \in Genders :
        /\ g # gender
        /\ gender' = g
        /\ result' = NoResult
        /\ UNCHANGED <<age, current_weight, exercise_hours, target_weight,
                       goal, target_date, weekday>>

SetCurrentWeight ==
    \E w \in WeightChoices :
        /\ w # current_weight
        /\ current_weight' = w
        /\ result' = NoResult
        /\ UNCHANGED <<age, gender, exercise_hours, target_weight,
                       goal, target_date, weekday>>

SetExerciseHours ==
    \E h \in ExerciseChoices :
        /\ h # exercise_hours
        /\ exercise_hours' = h
        /\ result' = NoResult
        /\ UNCHANGED <<age, gender, current_weight, target_weight,
                       goal, target_date, weekday>>

SetTargetWeight ==
    \E w \in WeightChoices :
        /\ w # target_weight
        /\ target_weight' = w
        /\ result' = NoResult
        /\ UNCHANGED <<age, gender, current_weight, exercise_hours,
                       goal, target_date, weekday>>

(* The date picker is part of the page only while the goal is not          *)
(* "Maintain Weight"; a widget that comes back starts from its default.    *)
TargetDateAfterGoal(g, old_goal, td) ==
    IF g = "Maintain Weight" THEN Undefined
    ELSE IF old_goal = "Maintain Weight" THEN DateAt(DefaultTargetOffset)
    ELSE td

SetGoal ==
    \E g \in GoalSet :
        /\ g # goal
        /\ goal' = g
        /\ target_date' = TargetDateAfterGoal(g, goal, target_date)
        /\ result' = NoResult
        /\ UNCHANGED <<age, gender, current_weight, exercise_hours,
                       target_weight, weekday>>

SetTargetDate ==
    \E d \in TargetDateChoices :
        /\ goal # "Maintain Weight"
        /\ DateAt(d) # target_date
        /\ target_date' = DateAt(d)
        /\ result' = NoResult
        /\ UNCHANGED <<age, gender, current_weight, exercise_hours,
                       target_weight, goal, weekday>>

----------------------------------------------------------------------------
(* Spec: the page, from its first run on any day of the week.              *)

Init ==
    /\ age = DefaultAge
    /\ gender = "Male"
    /\ current_weight = DefaultWeight
    /\ exercise_hours = DefaultExercise
    /\ target_weight = DefaultTargetWeight
    /\ goal = Goals[1]
    /\ target_date = DateAt(DefaultTargetOffset)
    /\ weekday \in 0..(DaysPerWeek - 1)
    /\ result = NoResult

Next ==
    \/ SetAge
    \/ SetGender
    \/ SetCurrentWeight
    \/ SetExerciseHours
    \/ SetTargetWeight
    \/ SetGoal
    \/ SetTargetDate
    \/ CalculateMacros

Spec == Init /\ [][Next]_vars

(* SpecDirect: the calculation applied to inputs of its whole domain,      *)
(* target dates that the form refuses included.                            *)
DirectDates == (0 - MaxBack)..MaxDirectDays

InitDirect ==
    /\ age \in AgeChoices
    /\ gender \in Genders
    /\ current_weight \in WeightChoices
    /\ exercise_hours \in ExerciseChoices
    /\ target_weight \in WeightChoices
    /\ goal \in GoalSet
    /\ target_date \in IF goal = "Maintain Weight" THEN {Undefined}
                      ELSE {DateAt(d) : d \in DirectDates}
    /\ weekday \in 0..(DaysPerWeek - 1)
    /\ result = NoResult

NextDirect == CalculateMacros

SpecDirect == InitDirect /\ [][NextDirect]_vars

(* SpecBMR: the calculation on every age, weight and gender of the form.   *)
InitBMR ==
    /\ age \in MinAge..MaxAge
    /\ gender \in Genders
    /\ current_weight \in MinWeight..MaxWeight
    /\ exercise_hours = DefaultExercise
    /\ target_weight = DefaultTargetWeight
    /\ goal = "Maintain Weight"
    /\ target_date = Undefined
    /\ weekday = 0
    /\ result = NoResult

NextBMR == CalculateMacros

SpecBMR == InitBMR /\ [][NextBMR]_vars

----------------------------------------------------------------------------
(* Properties.                                                             *)

Ran == result.status = "ok"
Clicked == result # NoResult
DatedGoal == goal # "Maintain Weight"
FxLeq(u, v) == ~FxLess(v, u)

(* 2^-44 kg in units of 2^-60.                                             *)
WeightTolerance == 2^16

FxNear(w, k) ==
    /\ FxLeq(w, FxAdd(FxInt(k), <<0, 0, 0, WeightTolerance>>))
    /\ FxLeq(FxSub(FxInt(k), <<0, 0, 0, WeightTolerance>>), w)

(* C1: with goal Lose Weight and a positive number of days until the       *)
(* target date, the target calorie value is never below 1200.              *)
C1_LoseFloor ==
    (goal = "Lose Weight" /\ Ran /\ OffsetOf(target_date) > 0)
        => RLeq(RInt(CalorieFloor), result.target_calories)

(* C1 witness: one day until the target and a TDEE that is itself below   *)
(* 1200; the floor applies.                                                *)
C1_Witness ==
    /\ goal = "Lose Weight"
    /\ Ran
    /\ OffsetOf(target_date) = 1
    /\ RLess(result.tdee, RInt(CalorieFloor))
    /\ result.target_calories = RInt(CalorieFloor)

(* C2 as claimed: for a target date after today the first point of the     *)
(* projection is (today, current weight) and the last is (target date,     *)
(* target weight), the weights being equal exactly.                        *)
C2_ExactEndpoints ==
    (DatedGoal /\ Ran /\ OffsetOf(target_date) > 0)
        => LET df == result.projection
           IN  /\ Len(df) >= 1
               /\ df[1].Date = 0
               /\ df[1].Weight = FxInt(current_weight)
               /\ df[Len(df)].Date = OffsetOf(target_date)
               /\ df[Len(df)].Weight = FxInt(target_weight)

(* C2 as amended: the first point is exactly (today, current weight); the  *)
(* last point is at the target date and its weight is within 2^-44 kg of   *)
(* the target weight.                                                      *)
C2_Endpoints ==
    (DatedGoal /\ Ran /\ OffsetOf(target_date) > 0)
        => LET df == result.projection
           IN  /\ Len(df) >= 1
               /\ df[1].Date = 0
               /\ df[1].Weight = FxInt(current_weight)
               /\ df[Len(df)].Date = OffsetOf(target_date)
               /\ FxNear(df[Len(df)].Weight, target_weight)

(* C2 witness: a projection whose last weight is not the target weight     *)
(* itself.                                                                 *)
C2_Witness ==
    /\ DatedGoal
    /\ Ran
    /\ OffsetOf(target_date) > 0
    /\ Len(result.projection) >= 1
    /\ result.projection[Len(result.projection)].Weight # FxInt(target_weight)

TablePercent(g) ==
    IF g = "Lose Weight" THEN <<40, 35, 25>>
    ELSE IF g = "Maintain Weight" THEN <<30, 30, 40>>
    ELSE <<30, 25, 45>>

ExactGrams(calories, pct, density) == RMul(calories, Rat(pct, 100 * density))

WithinOneGram(grams, exact) == RLeq(RAbs(RSub(RInt(grams), exact)), RInt(1))

(* C4: for every goal and every calorie target the calorie adjustment      *)
(* produces from the form's inputs, protein, fat and carbs are             *)
(* non-negative integers, each within 1 gram of calorie target x table     *)
(* percentage / energy density.                                            *)
C4_MacrosNonNegativeAndClose ==
    Ran => LET m == result.macros
               c == result.target_calories
               t == TablePercent(goal)
           IN  /\ m.protein \in Nat
               /\ m.fat \in Nat
               /\ m.carbs \in Nat
               /\ WithinOneGram(m.protein, ExactGrams(c, t[1], 4))
               /\ WithinOneGram(m.fat, ExactGrams(c, t[2], 9))
               /\ WithinOneGram(m.carbs, ExactGrams(c, t[3], 4))

(* C5: the weekly digest lists exactly the projection points of day 0,     *)
(* day 7, day 14, ..., labelled Week 1, Week 2, ... in that order: the     *)
(* entry Week k shows the projected weight of day 7(k-1).                  *)
C5_SevenDayBuckets ==
    (DatedGoal /\ Ran)
        => LET df == result.projection
               wk == result.weekly
           IN  /\ Len(wk) = ((Len(df) - 1) \div 7) + 1
               /\ \A k \in 1..Len(wk) :
                     /\ wk[k].week_num = k
                     /\ 7 * (k - 1) + 1 <= Len(df)
                     /\ wk[k].Weight = df[7 * (k - 1) + 1].Weight
                     /\ wk[k].shown = FormatTenths(df[7 * (k - 1) + 1].Weight)

(* C6: given a target date that is not after today (totalDays zero or      *)
(* negative), the calculation fails with an error and returns neither a    *)
(* calorie value nor a projection.                                         *)
C6_NonFutureDateFails ==
    (DatedGoal /\ Clicked /\ OffsetOf(target_date) <= 0)
        => result.status = "error"

(* C7: calculate_bmr is strictly increasing in weight and strictly         *)
(* decreasing in age: one more kilogram gives a higher BMR and one more    *)
(* year a lower one, at every weight in 40..200, age in 15..100 and        *)
(* gender.                                                                 *)
C7_BmrMonotonic ==
    Ran => /\ current_weight < MaxWeight
              => RLess(result.bmr, calculate_bmr(current_weight + 1, age, gender))
           /\ age < MaxAge
              => RLess(calculate_bmr(current_weight, age + 1, gender), result.bmr)

(* C7 witness: the BMR computed inside the ranges, for a woman.            *)
C7_Witness ==
    /\ Ran
    /\ gender = "Female"
    /\ current_weight = MaxWeight - 1
    /\ age = MaxAge - 1

(* C8: with goal Maintain Weight the calculation succeeds with no target   *)
(* date bound, and the target calorie value is the TDEE itself, whatever   *)
(* the current and target weights.                                         *)
C8_MaintainIsTdee ==
    (goal = "Maintain Weight" /\ Clicked)
        => /\ target_date = Undefined
           /\ Ran
           /\ result.target_calories = result.tdee
           /\ result.tdee = calculate_tdee(calculate_bmr(current_weight, age, gender),
                                           exercise_hours)

(* C8 witness: Maintain Weight calculated with a target weight that        *)
(* differs from the current weight.                                        *)
C8_Witness ==
    /\ goal = "Maintain Weight"
    /\ Ran
    /\ target_date = Undefined
    /\ target_weight # current_weight

ScenarioInputs ==
    /\ current_weight = 70
    /\ age = 30
    /\ gender = "Male"
    /\ exercise_hours = 3
    /\ goal = "Lose Weight"
    /\ target_weight = 65
    /\ target_date = DateAt(35)

ScenarioUnclamped == RSub(result.tdee, Rat(5 * 7700, 35))

(* C9 as claimed: the scenario weight 70, age 30, Male, 3 exercise hours,  *)
(* Lose Weight, target 65 in 35 days gives BMR 1617.5, a TDEE that rounds  *)
(* to 1994, an unclamped value of 894, a target of 1200 kcal and macros    *)
(* 120 / 47 / 75.                                                          *)
C9_ScenarioAsStated ==
    (ScenarioInputs /\ Clicked)
        => /\ Ran
           /\ result.bmr = Rat(16175, 10)
           /\ result.tdee_shown = 1994
           /\ PyRound(ScenarioUnclamped) = 894
           /\ result.target_calories = RInt(1200)
           /\ result.macros = [protein |-> 120, fat |-> 47, carbs |-> 75]

(* C9 as amended: the same scenario gives BMR 1617.5, a TDEE that rounds   *)
(* to 1993 (1992.99), an unclamped value that rounds to 893 (892.99), a    *)
(* target of 1200 kcal and macros 120 / 47 / 75.                           *)
C9_Scenario ==
    (ScenarioInputs /\ Clicked)
        => /\ Ran
           /\ result.bmr = Rat(16175, 10)
           /\ result.tdee_shown = 1993
           /\ PyRound(ScenarioUnclamped) = 893
           /\ RLess(ScenarioUnclamped, RInt(1200))
           /\ result.target_calories = RInt(1200)
           /\ result.daily_calories_shown = 1200
           /\ result.macros = [protein |-> 120, fat |-> 47, carbs |-> 75]

(* C9 witness: the scenario has been calculated.                           *)
C9_Witness == ScenarioInputs /\ Ran

(* C10: within one day, whenever the calculation has run with a goal other *)
(* than Maintain Weight, the target date is bound and at least 7 days      *)
(* after today, and the calculation has not failed on a division.          *)
C10_DateAtLeastAWeekAhead ==
    (DatedGoal /\ Clicked)
        => /\ target_date # Undefined
           /\ OffsetOf(target_date) >= 7
           /\ Ran

(* C10 witness: Gain Weight calculated for the earliest date the picker    *)
(* offers.                                                                 *)
C10_Witness ==
    /\ goal = "Gain Weight"
    /\ Ran
    /\ OffsetOf(target_date) = MinTargetOffset

====
